---- MODULE Spec2Model ----
(***************************************************************************)
(* The session-pool proxy of package mobilekcp (src/unnamed/part_000):     *)
(* StartProxy / StopProxy / IsRunning over the package globals, the        *)
(* acceptLoop goroutine started by every successful StartProxy, and the    *)
(* handleClient goroutine started for every dispatched connection; and the *)
(* pool variant of src/proxy.go, whose accept loop repairs a slot outside  *)
(* the lock.                                                               *)
(*                                                                         *)
(* Pointers are object identifiers: a listener, session or channel is its  *)
(* index in the sequence of objects ever created, 0 is nil.  Slot idx of   *)
(* the Go slice proxySessions is element idx + 1 of the sequence.          *)
(*                                                                         *)
(* A call that returns a value is an operator from the state it finds to   *)
(* its outcome (StartProxyOutcome, StopProxyOutcome, DispatchOutcome, ...):*)
(* the value returned and the state it leaves.  The action of the call     *)
(* applies the outcome; a property of the call is stated of its outcome in *)
(* every reachable state.                                                  *)
(*                                                                         *)
(* Spec     the controller and the accept loops of src/unnamed/part_000    *)
(* SpecFwd  one Forwarder of a running proxy, with Stop and session death  *)
(* SpecPool the controller and the accept loops of src/proxy.go            *)
(***************************************************************************)
EXTENDS Integers, Sequences, FiniteSets, TLC

\* ------------------------------------------------------------- bounds
MaxPool == 2
MaxListeners == 2
MaxSess == 3
MaxConns == 2

\* ---------------------------------------------------------- constants
maxSmuxVer == 2

VARIABLES
    proxyListener,  \* net.Listener: id of a listener, 0 = nil
    proxySessions,  \* []*smux.Session: sequence of session ids, 0 = nil entry
    proxyMu,        \* sync.Mutex: 0 = free, i = held by accept loop i
    proxyRunning,   \* bool
    proxyConfig,    \* *Config: a record, NoConfig = nil
    stopChan,       \* chan struct{}: id of a channel, 0 = nil
    listeners,      \* every listener ever bound
    sessions,       \* every session ever created
    chans,          \* every channel ever made: "open" or "closed"
    loops,          \* every acceptLoop goroutine ever started
    conns,          \* the Forwarders followed (goroutines of handleClient)
    panicked        \* a goroutine panicked: the process is gone

vars == <<proxyListener, proxySessions, proxyMu, proxyRunning, proxyConfig,
          stopChan, listeners, sessions, chans, loops, conns, panicked>>

ctl == <<proxyListener, proxySessions, proxyMu, proxyRunning, proxyConfig, stopChan>>

NoConfig == [nil |-> TRUE]

\* ------------------------------------------------------ configuration
\* The JSON texts handed to StartProxy: malformed ones, and objects giving
\* localaddr, remoteaddr, conn and smuxver (an absent field is its zero value).
ConfigInputs ==
    {[valid |-> FALSE, LocalAddr |-> "", RemoteAddr |-> "", Conn |-> 0, SmuxVer |-> 0],
     [valid |-> TRUE, LocalAddr |-> "127.0.0.1:0", RemoteAddr |-> "", Conn |-> 0,
      SmuxVer |-> 0],
     [valid |-> TRUE, LocalAddr |-> "", RemoteAddr |-> "1.2.3.4:4000", Conn |-> 0,
      SmuxVer |-> maxSmuxVer + 1]}
    \cup [valid : {TRUE}, LocalAddr : {""}, RemoteAddr : {"1.2.3.4:4000"},
          Conn : (0..MaxPool) \ {1}, SmuxVer : {maxSmuxVer}]

Unmarshal(configJson) ==
    IF configJson.valid
    THEN [err |-> << >>,
          cfg |-> [LocalAddr |-> configJson.LocalAddr, RemoteAddr |-> configJson.RemoteAddr,
                   Conn |-> configJson.Conn, SmuxVer |-> configJson.SmuxVer]]
    ELSE [err |-> <<"invalid", "character">>,
          cfg |-> [LocalAddr |-> "", RemoteAddr |-> "", Conn |-> 0, SmuxVer |-> 0]]

applyDefaults(config) ==
    [config EXCEPT
        !.LocalAddr = IF config.LocalAddr = "" THEN "127.0.0.1:1080" ELSE config.LocalAddr,
        !.Conn = IF config.Conn <= 0 THEN 1 ELSE config.Conn,
        !.SmuxVer = IF config.SmuxVer <= 0 THEN 1 ELSE config.SmuxVer]

\* validateConfig without the check of RemoteAddr.
validateConfig_NoRemoteAddr(config) ==
    IF config.Conn <= 0 THEN <<"conn", "must", "be", "greater", "than", "0">>
    ELSE IF config.SmuxVer > maxSmuxVer
         THEN <<"unsupported", "smux", "version:", config.SmuxVer>>
    ELSE << >>

\* The error of validateConfig as its words; << >> is the nil error.
validateConfig(config) ==
    IF config.RemoteAddr = "" THEN <<"remoteaddr", "is", "required">>
    ELSE IF config.Conn <= 0 THEN <<"conn", "must", "be", "greater", "than", "0">>
    ELSE IF config.SmuxVer > maxSmuxVer
         THEN <<"unsupported", "smux", "version:", config.SmuxVer>>
    ELSE << >>

\* ------------------------------------------------------------ helpers
IsClosed(s) == sessions[s].st = "closed"

Range(f) == {f[i] : i \in DOMAIN f}

\* session.Close() on every session of ss.
CloseAll(ss) ==
    [s \in DOMAIN sessions |->
        IF s \in ss THEN [sessions[s] EXCEPT !.st = "closed"] ELSE sessions[s]]

RECURSIVE SumAccepted(_)
SumAccepted(n) == IF n = 0 THEN 0 ELSE listeners[n].accepted + SumAccepted(n - 1)

\* The connections accepted so far, over every listener.
Accepted == SumAccepted(Len(listeners))

\* What a goroutine of acceptLoop holds: its program counter, rr, the
\* listener whose Accept it is in (or whose connection it holds), the place k
\* of the held connection in that listener's accept order, idx and session.
NewLoop == [pc |-> "top", rr |-> 0, lst |-> 0, k |-> -1, idx |-> 0, session |-> 0]
Returned == [pc |-> "done", rr |-> 0, lst |-> 0, k |-> -1, idx |-> 0, session |-> 0]
Panicked == [pc |-> "panic", rr |-> 0, lst |-> 0, k |-> -1, idx |-> 0, session |-> 0]

Init ==
    /\ proxyListener = 0
    /\ proxySessions = << >>
    /\ proxyMu = 0
    /\ proxyRunning = FALSE
    /\ proxyConfig = NoConfig
    /\ stopChan = 0
    /\ listeners = << >>
    /\ sessions = << >>
    /\ chans = << >>
    /\ loops = << >>
    /\ conns = << >>
    /\ panicked = FALSE

\* ------------------------------------------------------- the API calls
\* A call of the API is a function of the state it finds (and of what the
\* network does during it): it gives the value returned and the globals and
\* objects as the call leaves them.  Here, the call that changes nothing and
\* returns the empty string.
Unchanged ==
    [ret |-> << >>, panicked |-> FALSE, spawned |-> FALSE,
     proxyListener |-> proxyListener, proxySessions |-> proxySessions,
     proxyRunning |-> proxyRunning, proxyConfig |-> proxyConfig, stopChan |-> stopChan,
     listeners |-> listeners, sessions |-> sessions, chans |-> chans]

\* The call's effect on the state; spawned is go acceptLoop().
Apply(o) ==
    /\ proxyListener' = o.proxyListener
    /\ proxySessions' = o.proxySessions
    /\ proxyRunning' = o.proxyRunning
    /\ proxyConfig' = o.proxyConfig
    /\ stopChan' = o.stopChan
    /\ listeners' = o.listeners
    /\ sessions' = o.sessions
    /\ chans' = o.chans
    /\ panicked' = o.panicked
    /\ loops' = IF o.spawned THEN Append(loops, NewLoop) ELSE loops
    /\ UNCHANGED <<proxyMu, conns>>

\* The sessions the pool-creation loop makes: nOk of them before the first
\* createSession that fails (nOk = Conn: none fails).
NewSessions(nOk, run) ==
    [i \in 1..nOk |-> [st |-> "open", by |-> "start", run |-> run, replaces |-> 0]]

\* StartProxy without "stopChan = make(chan struct{})": the run keeps the
\* stop channel of the run before it.
StartProxyBody_ChanReused(configJson, listenOk, nOk) ==
    LET u == Unmarshal(configJson)
        config == applyDefaults(u.cfg)
        verr == validateConfig(config)
        l == Len(listeners) + 1
        first == Len(sessions) + 1
        pool == [i \in 1..config.Conn |-> IF i <= nOk THEN first + i - 1 ELSE 0]
    IN
    IF u.err # << >>
    THEN [Unchanged EXCEPT !.ret = <<"Config", "Error:">> \o u.err]
    ELSE IF verr # << >>
    THEN [Unchanged EXCEPT !.ret = <<"Validate", "Error:">> \o verr]
    ELSE IF ~listenOk
    THEN [Unchanged EXCEPT !.ret = <<"Listen", "Error:", "bind">>,
                           !.proxyListener = 0]
    ELSE IF nOk < config.Conn
    THEN \* proxyListener.Close(); return "Session Error: ..."
         [Unchanged EXCEPT
             !.ret = <<"Session", "Error:", "dial">>,
             !.proxyListener = l,
             !.listeners = Append(listeners, [open |-> FALSE, n |-> config.Conn,
                                              started |-> FALSE, accepted |-> 0]),
             !.sessions = sessions \o NewSessions(nOk, l),
             !.proxySessions = pool]
    ELSE [Unchanged EXCEPT
             !.proxyListener = l,
             !.listeners = Append(listeners, [open |-> TRUE, n |-> config.Conn,
                                              started |-> TRUE, accepted |-> 0]),
             !.sessions = sessions \o NewSessions(nOk, l),
             !.proxySessions = pool,
             !.proxyConfig = config,
             !.proxyRunning = TRUE,
             !.spawned = TRUE]

\* StartProxy past the check of proxyRunning, when net.Listen succeeds iff
\* listenOk and the first nOk calls of createSession succeed.
StartProxyBody(configJson, listenOk, nOk) ==
    LET u == Unmarshal(configJson)
        config == applyDefaults(u.cfg)
        verr == validateConfig(config)
        l == Len(listeners) + 1
        first == Len(sessions) + 1
        pool == [i \in 1..config.Conn |-> IF i <= nOk THEN first + i - 1 ELSE 0]
    IN
    IF u.err # << >>
    THEN [Unchanged EXCEPT !.ret = <<"Config", "Error:">> \o u.err]
    ELSE IF verr # << >>
    THEN [Unchanged EXCEPT !.ret = <<"Validate", "Error:">> \o verr]
    ELSE IF ~listenOk
    THEN [Unchanged EXCEPT !.ret = <<"Listen", "Error:", "bind">>,
                           !.proxyListener = 0]
    ELSE IF nOk < config.Conn
    THEN \* proxyListener.Close(); return "Session Error: ..."
         [Unchanged EXCEPT
             !.ret = <<"Session", "Error:", "dial">>,
             !.proxyListener = l,
             !.listeners = Append(listeners, [open |-> FALSE, n |-> config.Conn,
                                              started |-> FALSE, accepted |-> 0]),
             !.sessions = sessions \o NewSessions(nOk, l),
             !.proxySessions = pool]
    ELSE [Unchanged EXCEPT
             !.proxyListener = l,
             !.listeners = Append(listeners, [open |-> TRUE, n |-> config.Conn,
                                              started |-> TRUE, accepted |-> 0]),
             !.sessions = sessions \o NewSessions(nOk, l),
             !.proxySessions = pool,
             !.proxyConfig = config,
             !.proxyRunning = TRUE,
             !.chans = Append(chans, "open"),
             !.stopChan = Len(chans) + 1,
             !.spawned = TRUE]

\* StartProxy without "if proxyRunning { return ... }".
StartProxyOutcome_NoRunningCheck(configJson, listenOk, nOk) ==
    StartProxyBody(configJson, listenOk, nOk)

StartProxyOutcome(configJson, listenOk, nOk) ==
    IF proxyRunning
    THEN [Unchanged EXCEPT !.ret = <<"Proxy", "already", "running">>]
    ELSE StartProxyBody(configJson, listenOk, nOk)

\* Whether the call gets as far as net.Listen.
ReachesListen(configJson) ==
    /\ ~proxyRunning
    /\ Unmarshal(configJson).err = << >>
    /\ validateConfig(applyDefaults(Unmarshal(configJson).cfg)) = << >>

\* What the network may do during the call: net.Listen is called only if the
\* call gets that far, createSession only once a listener is bound, and at
\* most Conn times.
ListenResults(configJson) == IF ReachesListen(configJson) THEN BOOLEAN ELSE {TRUE}

SessionResults(configJson, listenOk) ==
    IF ReachesListen(configJson) /\ listenOk
    THEN 0..applyDefaults(Unmarshal(configJson).cfg).Conn
    ELSE {0}

\* The objects the call makes stay within the bounds of the model.
WithinBounds(o) ==
    /\ Len(o.listeners) <= MaxListeners
    /\ Len(o.sessions) <= MaxSess

StartProxy(configJson) ==
    /\ ~panicked
    /\ proxyMu = 0
    /\ \E listenOk \in ListenResults(configJson) :
         \E nOk \in SessionResults(configJson, listenOk) :
            /\ WithinBounds(StartProxyOutcome(configJson, listenOk, nOk))
            /\ Apply(StartProxyOutcome(configJson, listenOk, nOk))

\* The teardown of StopProxy, from "proxyRunning = false" on.
StopProxyBody ==
    IF stopChan = 0 \/ chans[stopChan] = "closed"
    THEN \* close of a nil or closed channel panics
         [Unchanged EXCEPT !.panicked = TRUE, !.proxyRunning = FALSE]
    ELSE [Unchanged EXCEPT
             !.proxyRunning = FALSE,
             !.chans = [chans EXCEPT ![stopChan] = "closed"],
             !.listeners = IF proxyListener # 0
                           THEN [listeners EXCEPT ![proxyListener].open = FALSE]
                           ELSE listeners,
             !.proxyListener = 0,
             !.sessions = CloseAll(Range(proxySessions) \ {0}),
             !.proxySessions = << >>,
             !.proxyConfig = NoConfig]

\* StopProxy without "if !proxyRunning { return }".
StopProxyOutcome_NoRunningCheck == StopProxyBody

\* StopProxy without the loop that closes the sessions of the pool.
StopProxyOutcome_SessionsLeftOpen ==
    IF ~proxyRunning THEN Unchanged ELSE [StopProxyBody EXCEPT !.sessions = sessions]

StopProxyOutcome == IF ~proxyRunning THEN Unchanged ELSE StopProxyBody

StopProxy ==
    /\ ~panicked
    /\ proxyMu = 0
    /\ Apply(StopProxyOutcome)

IsRunningOutcome == [Unchanged EXCEPT !.ret = proxyRunning]

IsRunning ==
    /\ ~panicked
    /\ proxyMu = 0
    /\ Apply(IsRunningOutcome)

\* --------------------------------------------------------- acceptLoop
\* select { case <-stopChan: ...; default: }: receiving from a nil channel
\* is never ready, from a closed one always.
StopSignalled == stopChan # 0 /\ chans[stopChan] = "closed"

\* idx := rr % len(proxySessions)
SlotFor(rr) == rr % Len(proxySessions)

LoopTop(i) ==
    /\ ~panicked
    /\ loops[i].pc = "top"
    /\ loops' = [loops EXCEPT ![i] = IF StopSignalled THEN Returned
                                     ELSE [@ EXCEPT !.pc = "call"]]
    /\ UNCHANGED <<ctl, listeners, sessions, chans, conns, panicked>>

\* proxyListener.Accept(): the receiver is read from the global, without the
\* lock; a call through a nil interface panics.
LoopCallAccept(i) ==
    /\ ~panicked
    /\ loops[i].pc = "call"
    /\ IF proxyListener = 0
       THEN /\ panicked' = TRUE
            /\ loops' = [loops EXCEPT ![i] = Panicked]
       ELSE /\ loops' = [loops EXCEPT ![i].pc = "inAccept", ![i].lst = proxyListener]
            /\ UNCHANGED panicked
    /\ UNCHANGED <<ctl, listeners, sessions, chans, conns>>

\* Accept returns a connection.
LoopAcceptOk(i) ==
    /\ ~panicked
    /\ loops[i].pc = "inAccept"
    /\ listeners[loops[i].lst].open
    /\ Accepted < MaxConns
    /\ listeners' = [listeners EXCEPT ![loops[i].lst].accepted = @ + 1]
    /\ loops' = [loops EXCEPT ![i].pc = "lock", ![i].k = listeners[loops[i].lst].accepted]
    /\ UNCHANGED <<ctl, sessions, chans, conns, panicked>>

\* The accept loop that returns on any error of Accept, as the loop of
\* src/proxy.go does.
LoopAcceptErr_Fatal(i) ==
    /\ ~panicked
    /\ loops[i].pc = "inAccept"
    /\ loops' = [loops EXCEPT ![i] = Returned]
    /\ UNCHANGED <<ctl, listeners, sessions, chans, conns, panicked>>

\* Accept returns an error (the listener is closed, or a transient failure),
\* and the select that follows returns when stopping, else continues.
LoopAcceptErr(i) ==
    /\ ~panicked
    /\ loops[i].pc = "inAccept"
    /\ loops' = [loops EXCEPT ![i] = IF StopSignalled THEN Returned
                                     ELSE [@ EXCEPT !.pc = "top", !.lst = 0]]
    /\ UNCHANGED <<ctl, listeners, sessions, chans, conns, panicked>>

\* What the loop does with the connection it holds once it has the lock:
\* "reject" it (not running), "panic" (modulo by zero), "repair" the selected
\* slot first (createSession under the lock), or "forward" it: release the
\* lock and go handleClient(conn, session).
DispatchOutcome(i) ==
    IF ~proxyRunning
    THEN [op |-> "reject", idx |-> -1, session |-> 0]
    ELSE IF Len(proxySessions) = 0
    THEN [op |-> "panic", idx |-> -1, session |-> 0]
    ELSE LET idx == SlotFor(loops[i].rr)
             session == proxySessions[idx + 1]
         IN [op |-> IF session = 0 \/ IsClosed(session) THEN "repair" ELSE "forward",
             idx |-> idx, session |-> session]

\* The dispatch of a loop that calls handleClient(conn, session) without
\* "go": it gets past a hand-off only once the Forwarders have returned.
LoopDispatch_Inline(i) ==
    /\ ~panicked
    /\ loops[i].pc = "lock"
    /\ proxyMu = 0
    /\ \A c \in DOMAIN conns : conns[c].pc = "done"
    /\ LET o == DispatchOutcome(i)
       IN /\ loops' = [loops EXCEPT ![i] =
                CASE o.op = "reject" -> Returned
                  [] o.op = "panic" -> Panicked
                  [] o.op = "repair" -> [@ EXCEPT !.pc = "repair", !.rr = @ + 1,
                                                  !.idx = o.idx, !.session = o.session]
                  [] o.op = "forward" -> [@ EXCEPT !.pc = "top", !.rr = @ + 1,
                                                   !.k = -1, !.lst = 0]]
          /\ proxyMu' = IF o.op = "repair" THEN i ELSE 0
          /\ panicked' = (o.op = "panic")
    /\ UNCHANGED <<proxyListener, proxySessions, proxyRunning, proxyConfig, stopChan,
                   listeners, sessions, chans, conns>>

\* proxyMu.Lock() to the hand-off, or to the call of createSession.
LoopDispatch(i) ==
    /\ ~panicked
    /\ loops[i].pc = "lock"
    /\ proxyMu = 0
    /\ LET o == DispatchOutcome(i)
       IN /\ loops' = [loops EXCEPT ![i] =
                CASE o.op = "reject" -> Returned
                  [] o.op = "panic" -> Panicked
                  [] o.op = "repair" -> [@ EXCEPT !.pc = "repair", !.rr = @ + 1,
                                                  !.idx = o.idx, !.session = o.session]
                  [] o.op = "forward" -> [@ EXCEPT !.pc = "top", !.rr = @ + 1,
                                                   !.k = -1, !.lst = 0]]
          /\ proxyMu' = IF o.op = "repair" THEN i ELSE 0
          /\ panicked' = (o.op = "panic")
    /\ UNCHANGED <<proxyListener, proxySessions, proxyRunning, proxyConfig, stopChan,
                   listeners, sessions, chans, conns>>

\* The repair without "proxySessions[idx] = newSession".
RepairOutcome_NotInstalled(i, ok) ==
    IF ok
    THEN [op |-> "forward", idx |-> loops[i].idx, session |-> Len(sessions) + 1,
          sessions |-> Append(sessions,
                          [st |-> "open", by |-> "repair", run |-> proxyListener,
                           replaces |-> loops[i].session]),
          proxySessions |-> proxySessions, proxyMu |-> 0, pc |-> "top"]
    ELSE [op |-> "drop", idx |-> loops[i].idx, session |-> 0,
          sessions |-> sessions, proxySessions |-> proxySessions,
          proxyMu |-> 0, pc |-> "top"]

\* The repair that appends the new session to the pool: with
\* "proxySessions = append(proxySessions, newSession)" as its install.
RepairOutcome_Appended(i, ok) ==
    IF ok
    THEN [op |-> "forward", idx |-> loops[i].idx, session |-> Len(sessions) + 1,
          sessions |-> Append(sessions,
                          [st |-> "open", by |-> "repair", run |-> proxyListener,
                           replaces |-> loops[i].session]),
          proxySessions |-> Append(proxySessions, Len(sessions) + 1),
          proxyMu |-> 0, pc |-> "top"]
    ELSE [op |-> "drop", idx |-> loops[i].idx, session |-> 0,
          sessions |-> sessions, proxySessions |-> proxySessions,
          proxyMu |-> 0, pc |-> "top"]

\* The repair that hands the connection over with the dead session when
\* createSession fails: without "conn.Close(); proxyMu.Unlock(); continue".
RepairOutcome_ForwardOnFailure(i, ok) ==
    IF ok
    THEN [op |-> "forward", idx |-> loops[i].idx, session |-> Len(sessions) + 1,
          sessions |-> Append(sessions,
                          [st |-> "open", by |-> "repair", run |-> proxyListener,
                           replaces |-> loops[i].session]),
          proxySessions |-> [proxySessions EXCEPT ![loops[i].idx + 1] = Len(sessions) + 1],
          proxyMu |-> 0, pc |-> "top"]
    ELSE [op |-> "forward", idx |-> loops[i].idx, session |-> loops[i].session,
          sessions |-> sessions, proxySessions |-> proxySessions,
          proxyMu |-> 0, pc |-> "top"]

\* createSession(proxyConfig) returns, the lock still held: on success the
\* new session is installed in the slot and the connection is forwarded with
\* it, on failure the connection is closed ("drop"). Either way the lock is
\* released and the loop is back at the top of its for statement.
RepairOutcome(i, ok) ==
    IF ok
    THEN [op |-> "forward", idx |-> loops[i].idx, session |-> Len(sessions) + 1,
          sessions |-> Append(sessions,
                          [st |-> "open", by |-> "repair", run |-> proxyListener,
                           replaces |-> loops[i].session]),
          proxySessions |-> [proxySessions EXCEPT ![loops[i].idx + 1] = Len(sessions) + 1],
          proxyMu |-> 0, pc |-> "top"]
    ELSE [op |-> "drop", idx |-> loops[i].idx, session |-> 0,
          sessions |-> sessions, proxySessions |-> proxySessions,
          proxyMu |-> 0, pc |-> "top"]

LoopRepair(i, ok) ==
    /\ ~panicked
    /\ loops[i].pc = "repair"
    /\ Len(RepairOutcome(i, ok).sessions) <= MaxSess
    /\ sessions' = RepairOutcome(i, ok).sessions
    /\ proxySessions' = RepairOutcome(i, ok).proxySessions
    /\ proxyMu' = RepairOutcome(i, ok).proxyMu
    /\ loops' = [loops EXCEPT ![i].pc = RepairOutcome(i, ok).pc, ![i].k = -1, ![i].idx = 0,
                              ![i].lst = 0, ![i].session = 0]
    /\ UNCHANGED <<proxyListener, proxyRunning, proxyConfig, stopChan, listeners, chans,
                   conns, panicked>>

\* -------------------------------------------------------- environment
\* The remote end closes a session, or its keepalive times out.
SessionDies(s) ==
    /\ ~panicked
    /\ sessions[s].st = "open"
    /\ sessions' = [sessions EXCEPT ![s].st = "closed"]
    /\ UNCHANGED <<ctl, listeners, chans, loops, conns, panicked>>

Next ==
    \/ \E configJson \in ConfigInputs : StartProxy(configJson)
    \/ StopProxy
    \/ IsRunning
    \/ \E i \in DOMAIN loops : LoopTop(i)
    \/ \E i \in DOMAIN loops : LoopCallAccept(i)
    \/ \E i \in DOMAIN loops : LoopAcceptOk(i)
    \/ \E i \in DOMAIN loops : LoopAcceptErr(i)
    \/ \E i \in DOMAIN loops : LoopDispatch(i)
    \/ \E i \in DOMAIN loops, ok \in BOOLEAN : LoopRepair(i, ok)
    \/ \E s \in DOMAIN sessions : SessionDies(s)

Spec == Init /\ [][Next]_vars

\* -------------------------------------------------------- handleClient
\* A Forwarder is the goroutine go handleClient(conn, session) of a "forward"
\* hand-off, with the two goroutines it starts. Its record holds
\*   pc       "open" before session.OpenStream(), "wait" in wg.Wait(), "done"
\*   session  the session handed over
\*   p1, p1rd the local connection: "open"/"closed", and whether CloseRead ran
\*   p2       the stream: "none", "open", "closed"
\*   g1, g2   the goroutines p2 -> p1 and p1 -> p2: "idle", "copy", then
\*            "closeRead" (g1) or "close" (g2), then "done" (wg.Done)
\*   g1end, g2end  how io.Copy returned: "eof", "readErr", "writeErr"
\*   rSent, rFin   chunks the remote end wrote to the stream, and its FIN
\*   rd2, rd2AtEnd chunks read from p2, and their number when g1's copy ended
\*   lSent, lPeer  chunks the local client wrote, and its state:
\*                 "open", "fin" (it closed its sending side), "reset"
\*   rd1      chunks read from p1
MaxChunks == 2

NewForwarder(session) ==
    [pc |-> "open", session |-> session, p1 |-> "open", p1rd |-> FALSE, p2 |-> "none",
     g1 |-> "idle", g2 |-> "idle", g1end |-> "none", g2end |-> "none",
     rSent |-> 0, rFin |-> FALSE, rd2 |-> 0, rd2AtEnd |-> -1,
     lSent |-> 0, lPeer |-> "open", rd1 |-> 0]

\* Reads and writes of the stream fail: it was closed, or its session was.
StreamDead(c) == conns[c].p2 = "closed" \/ IsClosed(conns[c].session)

Forward(c, f) ==
    /\ conns' = [conns EXCEPT ![c] = f]
    /\ UNCHANGED <<ctl, listeners, sessions, chans, loops, panicked>>

\* handleClient without the "return" that follows a failed OpenStream.
OpenStream_CopiesAnyway(c, ok) ==
    /\ conns[c].pc = "open"
    /\ ok => ~IsClosed(conns[c].session)
    /\ IF ~ok
       THEN Forward(c, [conns[c] EXCEPT !.pc = "wait", !.g1 = "copy", !.g2 = "copy"])
       ELSE Forward(c, [conns[c] EXCEPT !.pc = "wait", !.p2 = "open",
                                        !.g1 = "copy", !.g2 = "copy"])

\* p2, err := session.OpenStream(): it fails on a closed session, and may
\* fail on an open one (ok is FALSE). On an error handleClient returns and
\* the deferred p1.Close() runs. Otherwise wg.Add(2) and the two goroutines
\* start.
OpenStream(c, ok) ==
    /\ conns[c].pc = "open"
    /\ ok => ~IsClosed(conns[c].session)
    /\ IF ~ok
       THEN Forward(c, [conns[c] EXCEPT !.pc = "done", !.p1 = "closed"])
       ELSE Forward(c, [conns[c] EXCEPT !.pc = "wait", !.p2 = "open",
                                        !.g1 = "copy", !.g2 = "copy"])

\* One round of io.Copy(p1, p2): a chunk is read from the stream and written
\* to the local connection, or the read ends the copy.
CopyStreamToLocal(c) ==
    /\ conns[c].g1 = "copy"
    /\ \/ /\ conns[c].rd2 < conns[c].rSent
          /\ IF conns[c].lPeer = "reset"
             THEN Forward(c, [conns[c] EXCEPT !.rd2 = @ + 1, !.rd2AtEnd = conns[c].rd2 + 1,
                                              !.g1end = "writeErr", !.g1 = "closeRead"])
             ELSE Forward(c, [conns[c] EXCEPT !.rd2 = @ + 1])
       \/ /\ StreamDead(c)
          /\ Forward(c, [conns[c] EXCEPT !.rd2AtEnd = conns[c].rd2,
                                         !.g1end = "readErr", !.g1 = "closeRead"])
       \/ /\ ~StreamDead(c)
          /\ conns[c].rd2 = conns[c].rSent
          /\ conns[c].rFin
          /\ Forward(c, [conns[c] EXCEPT !.rd2AtEnd = conns[c].rd2,
                                         !.g1end = "eof", !.g1 = "closeRead"])

\* The goroutine of io.Copy(p1, p2) without its tcpConn.CloseRead().
CloseRead_Skipped(c) ==
    /\ conns[c].g1 = "closeRead"
    /\ Forward(c, [conns[c] EXCEPT !.g1 = "done"])

\* tcpConn.CloseRead(), then the deferred wg.Done().
CloseRead(c) ==
    /\ conns[c].g1 = "closeRead"
    /\ Forward(c, [conns[c] EXCEPT !.p1rd = TRUE, !.g1 = "done"])

\* One round of io.Copy(p2, p1): a chunk is read from the local connection
\* and written to the stream, or the read ends the copy. Once CloseRead ran
\* a read returns end-of-input; chunks the kernel had buffered may be read
\* before it does.
CopyLocalToStream(c) ==
    /\ conns[c].g2 = "copy"
    /\ \/ /\ conns[c].rd1 < conns[c].lSent
          /\ IF StreamDead(c)
             THEN Forward(c, [conns[c] EXCEPT !.rd1 = @ + 1,
                                              !.g2end = "writeErr", !.g2 = "close"])
             ELSE Forward(c, [conns[c] EXCEPT !.rd1 = @ + 1])
       \/ /\ conns[c].p1rd
          /\ Forward(c, [conns[c] EXCEPT !.g2end = "eof", !.g2 = "close"])
       \/ /\ conns[c].rd1 = conns[c].lSent
          /\ conns[c].lPeer = "fin"
          /\ Forward(c, [conns[c] EXCEPT !.g2end = "eof", !.g2 = "close"])
       \/ /\ conns[c].lPeer = "reset"
          /\ Forward(c, [conns[c] EXCEPT !.g2end = "readErr", !.g2 = "close"])

\* p2.Close(), then the deferred wg.Done().
CloseStream(c) ==
    /\ conns[c].g2 = "close"
    /\ Forward(c, [conns[c] EXCEPT !.p2 = "closed", !.g2 = "done"])

\* handleClient returning from wg.Wait() without waiting for both goroutines.
WaitReturn_FirstDone(c) ==
    /\ conns[c].pc = "wait"
    /\ conns[c].g1 = "done" \/ conns[c].g2 = "done"
    /\ Forward(c, [conns[c] EXCEPT !.pc = "done", !.p2 = "closed", !.p1 = "closed"])

\* wg.Wait() returns, and the deferred p2.Close() and p1.Close() run.
WaitReturn(c) ==
    /\ conns[c].pc = "wait"
    /\ conns[c].g1 = "done"
    /\ conns[c].g2 = "done"
    /\ Forward(c, [conns[c] EXCEPT !.pc = "done", !.p2 = "closed", !.p1 = "closed"])

\* The two ends of the forwarded connection.
RemoteWrite(c) ==
    /\ conns[c].p2 = "open"
    /\ ~IsClosed(conns[c].session)
    /\ ~conns[c].rFin
    /\ conns[c].rSent < MaxChunks
    /\ Forward(c, [conns[c] EXCEPT !.rSent = @ + 1])

RemoteFin(c) ==
    /\ conns[c].p2 = "open"
    /\ ~IsClosed(conns[c].session)
    /\ ~conns[c].rFin
    /\ Forward(c, [conns[c] EXCEPT !.rFin = TRUE])

LocalWrite(c) ==
    /\ conns[c].p1 = "open"
    /\ conns[c].lPeer = "open"
    /\ conns[c].lSent < MaxChunks
    /\ Forward(c, [conns[c] EXCEPT !.lSent = @ + 1])

LocalEnds(c, how) ==
    /\ conns[c].p1 = "open"
    /\ conns[c].lPeer = "open"
    /\ Forward(c, [conns[c] EXCEPT !.lPeer = how])

\* A running proxy with a pool of one that has just handed its first
\* connection to a Forwarder: StartProxy, then one round of acceptLoop.
InitFwd ==
    /\ proxyListener = 1
    /\ proxySessions = <<1>>
    /\ proxyMu = 0
    /\ proxyRunning = TRUE
    /\ proxyConfig = applyDefaults([LocalAddr |-> "", RemoteAddr |-> "1.2.3.4:4000",
                                    Conn |-> 0, SmuxVer |-> 0])
    /\ stopChan = 1
    /\ listeners = <<[open |-> TRUE, n |-> 1, started |-> TRUE, accepted |-> 1]>>
    /\ sessions = NewSessions(1, 1)
    /\ chans = <<"open">>
    /\ loops = <<[NewLoop EXCEPT !.rr = 1]>>
    /\ conns = <<NewForwarder(1)>>
    /\ panicked = FALSE

NextFwd ==
    \/ \E c \in DOMAIN conns, ok \in BOOLEAN : OpenStream(c, ok)
    \/ \E c \in DOMAIN conns : CopyStreamToLocal(c)
    \/ \E c \in DOMAIN conns : CloseRead(c)
    \/ \E c \in DOMAIN conns : CopyLocalToStream(c)
    \/ \E c \in DOMAIN conns : CloseStream(c)
    \/ \E c \in DOMAIN conns : WaitReturn(c)
    \/ \E c \in DOMAIN conns : RemoteWrite(c)
    \/ \E c \in DOMAIN conns : RemoteFin(c)
    \/ \E c \in DOMAIN conns : LocalWrite(c)
    \/ \E c \in DOMAIN conns, how \in {"fin", "reset"} : LocalEnds(c, how)
    \/ \E s \in DOMAIN sessions : SessionDies(s)
    \/ StopProxy

SpecFwd == InitFwd /\ [][NextFwd]_vars

\* The Forwarder under a fair scheduler: a goroutine that can take a step
\* (its call has something to return) takes it. Nothing is assumed of the
\* two peers, of the sessions or of the calls of StopProxy.
SpecFwdFair ==
    /\ SpecFwd
    /\ WF_vars(\E ok \in BOOLEAN : OpenStream(1, ok))
    /\ WF_vars(CopyStreamToLocal(1))
    /\ WF_vars(CloseRead(1))
    /\ WF_vars(CopyLocalToStream(1))
    /\ WF_vars(CloseStream(1))
    /\ WF_vars(WaitReturn(1))

\* ------------------------------------- acceptLoop beside a Forwarder
\* The accept loop of a running proxy goes on beside the Forwarder of the
\* first connection: no StartProxy or StopProxy is called. The scheduler
\* runs the loop when it can take a step (the lock is free when it asks for
\* it, and createSession returns); nothing is assumed of the Forwarder, its
\* peers or the arrival of connections.
NextStall ==
    \/ \E i \in DOMAIN loops : LoopTop(i)
    \/ \E i \in DOMAIN loops : LoopCallAccept(i)
    \/ \E i \in DOMAIN loops : LoopAcceptOk(i)
    \/ \E i \in DOMAIN loops : LoopAcceptErr(i)
    \/ \E i \in DOMAIN loops : LoopDispatch(i)
    \/ \E i \in DOMAIN loops, ok \in BOOLEAN : LoopRepair(i, ok)
    \/ \E c \in DOMAIN conns, ok \in BOOLEAN : OpenStream(c, ok)
    \/ \E c \in DOMAIN conns : CopyStreamToLocal(c)
    \/ \E c \in DOMAIN conns : CloseRead(c)
    \/ \E c \in DOMAIN conns : CopyLocalToStream(c)
    \/ \E c \in DOMAIN conns : CloseStream(c)
    \/ \E c \in DOMAIN conns : WaitReturn(c)
    \/ \E c \in DOMAIN conns : RemoteFin(c)
    \/ \E c \in DOMAIN conns, how \in {"fin", "reset"} : LocalEnds(c, how)
    \/ \E s \in DOMAIN sessions : SessionDies(s)

SpecStall ==
    /\ InitFwd
    /\ [][NextStall]_vars
    /\ WF_vars(LoopTop(1))
    /\ WF_vars(LoopCallAccept(1))
    /\ WF_vars(LoopDispatch(1))
    /\ WF_vars(\E ok \in BOOLEAN : LoopRepair(1, ok))

\* --------------------------------------- the pool variant, src/proxy.go
\* src/proxy.go keeps the same globals under the names listener, sessions,
\* mu and running: they are proxyListener, proxySessions, proxyMu and
\* proxyRunning here. It has no stop channel and hands its configuration to
\* the accept loop, which takes the lock only to install a replacement.
MaxPoolSess == 4

\* applyDefaults: if cfg.Conn <= 0 { cfg.Conn = 1 }
PoolConn(conn) == IF conn <= 0 THEN 1 ELSE conn

NewPoolLoop == [NewLoop EXCEPT !.pc = "call"]

\* StartProxy of src/proxy.go with "conn": conn, when net.Listen succeeds iff
\* listenOk and the first nOk calls of createSession succeed.
PoolStartProxy(conn, listenOk, nOk) ==
    /\ ~panicked
    /\ proxyMu = 0
    /\ nOk <= PoolConn(conn)
    /\ IF proxyRunning
       THEN UNCHANGED vars
       ELSE IF ~listenOk
       THEN /\ proxyListener' = 0
            /\ UNCHANGED <<proxySessions, proxyMu, proxyRunning, proxyConfig, stopChan,
                           listeners, sessions, chans, loops, conns, panicked>>
       ELSE /\ Len(listeners) < MaxListeners
            /\ Len(sessions) + nOk <= MaxPoolSess
            /\ proxyListener' = Len(listeners) + 1
            /\ listeners' = Append(listeners,
                    [open |-> nOk = PoolConn(conn), n |-> PoolConn(conn),
                     started |-> nOk = PoolConn(conn), accepted |-> 0])
            /\ sessions' = sessions \o NewSessions(nOk, Len(listeners) + 1)
            /\ proxySessions' = [i \in 1..PoolConn(conn) |->
                                    IF i <= nOk THEN Len(sessions) + i ELSE 0]
            /\ proxyRunning' = (nOk = PoolConn(conn))
            /\ loops' = IF nOk = PoolConn(conn) THEN Append(loops, NewPoolLoop) ELSE loops
            /\ UNCHANGED <<proxyMu, proxyConfig, stopChan, chans, conns, panicked>>

PoolStopProxy ==
    /\ ~panicked
    /\ proxyMu = 0
    /\ IF ~proxyRunning
       THEN UNCHANGED vars
       ELSE /\ proxyRunning' = FALSE
            /\ listeners' = IF proxyListener # 0
                            THEN [listeners EXCEPT ![proxyListener].open = FALSE]
                            ELSE listeners
            /\ proxyListener' = 0
            /\ sessions' = CloseAll(Range(proxySessions) \ {0})
            /\ proxySessions' = << >>
            /\ UNCHANGED <<proxyMu, proxyConfig, stopChan, chans, loops, conns, panicked>>

\* listener.Accept(): the receiver is read from the global, without the lock.
PoolCallAccept(i) ==
    /\ ~panicked
    /\ loops[i].pc = "call"
    /\ IF proxyListener = 0
       THEN /\ panicked' = TRUE
            /\ loops' = [loops EXCEPT ![i] = Panicked]
       ELSE /\ loops' = [loops EXCEPT ![i].pc = "inAccept", ![i].lst = proxyListener]
            /\ UNCHANGED panicked
    /\ UNCHANGED <<ctl, listeners, sessions, chans, conns>>

PoolAcceptOk(i) ==
    /\ ~panicked
    /\ loops[i].pc = "inAccept"
    /\ listeners[loops[i].lst].open
    /\ Accepted < MaxConns
    /\ listeners' = [listeners EXCEPT ![loops[i].lst].accepted = @ + 1]
    /\ loops' = [loops EXCEPT ![i].pc = "pick", ![i].k = listeners[loops[i].lst].accepted]
    /\ UNCHANGED <<ctl, sessions, chans, conns, panicked>>

\* if err != nil { return }
PoolAcceptErr(i) ==
    /\ ~panicked
    /\ loops[i].pc = "inAccept"
    /\ loops' = [loops EXCEPT ![i] = Returned]
    /\ UNCHANGED <<ctl, listeners, sessions, chans, conns, panicked>>

\* idx := rr % len(sessions); rr++; session := sessions[idx] and the check of
\* session.IsClosed(), all without the lock: the connection is forwarded
\* with the session, or createSession is called.
PoolPick(i) ==
    /\ ~panicked
    /\ loops[i].pc = "pick"
    /\ IF Len(proxySessions) = 0
       THEN /\ panicked' = TRUE
            /\ loops' = [loops EXCEPT ![i] = Panicked]
       ELSE LET idx == loops[i].rr % Len(proxySessions)
                session == proxySessions[idx + 1]
            IN /\ loops' = [loops EXCEPT ![i] =
                     IF session = 0 \/ IsClosed(session)
                     THEN [@ EXCEPT !.pc = "create", !.rr = @ + 1, !.idx = idx,
                                    !.session = session]
                     ELSE [@ EXCEPT !.pc = "call", !.rr = @ + 1, !.k = -1, !.lst = 0]]
               /\ UNCHANGED panicked
    /\ UNCHANGED <<ctl, listeners, sessions, chans, conns>>

\* createSession(cfg) returns: on an error the connection is closed and the
\* loop continues, else the loop holds newSession.
PoolCreate(i, ok) ==
    /\ ~panicked
    /\ loops[i].pc = "create"
    /\ IF ok
       THEN /\ Len(sessions) < MaxPoolSess
            /\ sessions' = Append(sessions,
                    [st |-> "open", by |-> "repair", run |-> proxyListener,
                     replaces |-> loops[i].session])
            /\ loops' = [loops EXCEPT ![i].pc = "install",
                                      ![i].session = Len(sessions) + 1]
       ELSE /\ loops' = [loops EXCEPT ![i].pc = "call", ![i].k = -1, ![i].idx = 0,
                                      ![i].lst = 0, ![i].session = 0]
            /\ UNCHANGED sessions
    /\ UNCHANGED <<ctl, listeners, chans, conns, panicked>>

\* mu.Lock(); sessions[idx] = newSession; mu.Unlock(); go handleConn(...)
PoolInstall(i) ==
    /\ ~panicked
    /\ loops[i].pc = "install"
    /\ proxyMu = 0
    /\ IF loops[i].idx + 1 \in DOMAIN proxySessions
       THEN /\ proxySessions' = [proxySessions EXCEPT ![loops[i].idx + 1] = loops[i].session]
            /\ loops' = [loops EXCEPT ![i].pc = "call", ![i].k = -1, ![i].idx = 0,
                                      ![i].lst = 0, ![i].session = 0]
            /\ UNCHANGED panicked
       ELSE \* index out of range
            /\ panicked' = TRUE
            /\ loops' = [loops EXCEPT ![i] = Panicked]
            /\ UNCHANGED proxySessions
    /\ UNCHANGED <<proxyListener, proxyMu, proxyRunning, proxyConfig, stopChan,
                   listeners, sessions, chans, conns>>

NextPool ==
    \/ \E conn \in 0..MaxPool, listenOk \in BOOLEAN, nOk \in 0..MaxPool :
            PoolStartProxy(conn, listenOk, nOk)
    \/ PoolStopProxy
    \/ \E i \in DOMAIN loops : PoolCallAccept(i)
    \/ \E i \in DOMAIN loops : PoolAcceptOk(i)
    \/ \E i \in DOMAIN loops : PoolAcceptErr(i)
    \/ \E i \in DOMAIN loops : PoolPick(i)
    \/ \E i \in DOMAIN loops, ok \in BOOLEAN : PoolCreate(i, ok)
    \/ \E i \in DOMAIN loops : PoolInstall(i)
    \/ \E s \in DOMAIN sessions : SessionDies(s)

SpecPool == Init /\ [][NextPool]_vars

\* ============================================================== claims
\* An API call can be made: no goroutine holds the lock it takes.
Callable == ~panicked /\ proxyMu = 0

\* The objects a call with outcome o made.
SessionsMadeBy(o) == (Len(sessions) + 1)..Len(o.sessions)
ListenersMadeBy(o) == (Len(listeners) + 1)..Len(o.listeners)

\* C1: StartProxy is atomic with respect to the pool. Called while not
\* running, whatever net.Listen and the calls of createSession do, it either
\* returns "" with running = true and Conn distinct live sessions of its own
\* installed, or returns an error with running = false, every session it
\* created closed and the listener it bound closed.
C1_StartAtomic ==
    (Callable /\ ~proxyRunning) =>
        \A configJson \in ConfigInputs :
          \A listenOk \in ListenResults(configJson) :
            \A nOk \in SessionResults(configJson, listenOk) :
                LET o == StartProxyOutcome(configJson, listenOk, nOk)
                    N == applyDefaults(Unmarshal(configJson).cfg).Conn
                IN \/ /\ o.ret = << >>
                      /\ o.proxyRunning
                      /\ Len(o.proxySessions) = N
                      /\ Cardinality(Range(o.proxySessions)) = N
                      /\ \A i \in 1..N :
                            /\ o.proxySessions[i] \in SessionsMadeBy(o)
                            /\ o.sessions[o.proxySessions[i]].st = "open"
                   \/ /\ o.ret # << >>
                      /\ ~o.proxyRunning
                      /\ \A s \in SessionsMadeBy(o) : o.sessions[s].st = "closed"
                      /\ \A l \in ListenersMadeBy(o) : ~o.listeners[l].open

\* C2: round-robin follows accept order. The connection accepted k-th
\* (from 0) on the listener of a running period with pool size N is given
\* slot k mod N, whether it is then forwarded or dropped on a failed repair.
C2_RoundRobin ==
    \A i \in DOMAIN loops :
        (~panicked /\ loops[i].pc = "lock" /\ proxyMu = 0
            /\ DispatchOutcome(i).op \in {"forward", "repair"})
        => DispatchOutcome(i).idx = loops[i].k % listeners[loops[i].lst].n

\* C4: after StopProxy returns from a running proxy IsRunning returns false
\* and every session the prior StartProxy created reports closed. As a call:
\* StopProxy on a running proxy returns with running = false and the sessions
\* of the running period's StartProxy closed. As a state: IsRunning returns
\* running, and a session made by a successful StartProxy is open only while
\* the period that StartProxy began still runs.
C4_StopClosesAll ==
    /\ (Callable /\ proxyRunning) =>
          LET o == StopProxyOutcome
          IN /\ ~o.panicked
             /\ ~o.proxyRunning
             /\ \A s \in DOMAIN sessions :
                   (sessions[s].by = "start" /\ sessions[s].run = proxyListener)
                       => o.sessions[s].st = "closed"
    /\ IsRunningOutcome.ret = proxyRunning
    /\ [IsRunningOutcome EXCEPT !.ret = << >>] = Unchanged
    /\ \A s \in DOMAIN sessions :
          (/\ sessions[s].by = "start"
           /\ listeners[sessions[s].run].started
           /\ sessions[s].st = "open")
              => (proxyRunning /\ proxyListener = sessions[s].run)

\* C4 witness: a proxy that ran with a pool of two and dispatched a
\* connection has been stopped.
C4_Witness ==
    /\ ~proxyRunning
    /\ proxyListener = 0
    /\ \E l \in DOMAIN listeners :
          /\ listeners[l].started
          /\ listeners[l].accepted > 0
          /\ Cardinality({s \in DOMAIN sessions :
                             sessions[s].by = "start" /\ sessions[s].run = l}) = 2

\* C5: StopProxy while not running is a no-op: it returns normally and
\* leaves running, the listener, the pool, the configuration, the stop
\* channel and every object as they were.
C5_StopNoOp ==
    (Callable /\ ~proxyRunning) => StopProxyOutcome = Unchanged

\* C5 witness: the proxy is not running after a StopProxy and a later failed
\* StartProxy, which left a listener and a pool behind for StopProxy to leave
\* alone.
C5_Witness ==
    /\ Callable
    /\ ~proxyRunning
    /\ proxyListener # 0
    /\ proxySessions # << >>
    /\ \E c \in DOMAIN chans : chans[c] = "closed"

\* C6: StartProxy while running returns a non-empty error and changes
\* nothing: no listener bound, no session created, configuration and stop
\* channel kept, no accept loop started, and the running proxy keeps its open
\* listener and its Conn slots.
C6_StartWhileRunning ==
    (Callable /\ proxyRunning) =>
        \A configJson \in ConfigInputs :
          \A listenOk \in ListenResults(configJson) :
            \A nOk \in SessionResults(configJson, listenOk) :
            LET o == StartProxyOutcome(configJson, listenOk, nOk)
            IN /\ o.ret # << >>
               /\ [o EXCEPT !.ret = << >>] = Unchanged
               /\ o.proxyListener # 0
               /\ o.listeners[o.proxyListener].open
               /\ Len(o.proxySessions) = o.proxyConfig.Conn

\* C6 witness: a running proxy with a pool of two that has accepted a
\* connection, where a second StartProxy can be called.
C6_Witness ==
    /\ Callable
    /\ proxyRunning
    /\ Len(proxySessions) = 2
    /\ listeners[proxyListener].accepted > 0

\* The JSON texts with a configuration error: malformed, no remote address, or
\* a multiplexer version above the supported maximum.
BadConfigs ==
    {c \in ConfigInputs : ~c.valid \/ c.RemoteAddr = "" \/ c.SmuxVer > maxSmuxVer}

\* C7: a configuration error is reported before any resource is acquired.
\* StartProxy on a stopped proxy, given such a text, returns a non-empty
\* error (naming remoteaddr when the remote address is empty), leaves running
\* false, binds no listener and creates no session, whatever the network
\* would have done.
C7_ConfigErrorFirst ==
    (Callable /\ ~proxyRunning) =>
        \A configJson \in BadConfigs :
          \A listenOk \in ListenResults(configJson) :
            \A nOk \in SessionResults(configJson, listenOk) :
            LET o == StartProxyOutcome(configJson, listenOk, nOk)
            IN /\ o.ret # << >>
               /\ (configJson.valid /\ configJson.RemoteAddr = "")
                      => "remoteaddr" \in Range(o.ret)
               /\ ~o.proxyRunning
               /\ ~o.spawned
               /\ o.proxyListener = proxyListener
               /\ o.listeners = listeners
               /\ o.sessions = sessions
               /\ o.proxySessions = proxySessions

\* C7 witness: a stopped proxy that ran before, where StartProxy is called
\* with each kind of configuration error.
C7_Witness ==
    /\ Callable
    /\ ~proxyRunning
    /\ \E l \in DOMAIN listeners : listeners[l].started
    /\ \E c \in BadConfigs : ~c.valid
    /\ \E c \in BadConfigs : c.valid /\ c.RemoteAddr = ""
    /\ \E c \in BadConfigs : c.valid /\ c.RemoteAddr # "" /\ c.SmuxVer > maxSmuxVer

\* C8: running is true iff the listener is present and open and the pool is
\* present with its Conn slots; and while running is false neither an open
\* listener nor a pool holding an open session remains.
C8_RunningIffLive ==
    /\ proxyRunning <=>
          /\ proxyListener # 0
          /\ listeners[proxyListener].open
          /\ proxySessions # << >>
          /\ Len(proxySessions) = listeners[proxyListener].n
    /\ ~proxyRunning =>
          /\ proxyListener = 0 \/ ~listeners[proxyListener].open
          /\ \A i \in DOMAIN proxySessions :
                proxySessions[i] = 0 \/ IsClosed(proxySessions[i])

\* A replacement is a session created by a repair, for the occupant the
\* repairing loop found in the slot (0: the slot was empty). A replacement of
\* a session was created when that session reported closed, and no session
\* has two replacements.
OneReplacementEach ==
    \A s \in DOMAIN sessions :
        (sessions[s].by = "repair" /\ sessions[s].replaces # 0) =>
            /\ sessions[sessions[s].replaces].st = "closed"
            /\ \A t \in DOMAIN sessions :
                  (sessions[t].by = "repair" /\ sessions[t].replaces = sessions[s].replaces)
                      => t = s

\* C3: single replacement per staleness. A connection is forwarded with a
\* session that is live and is the occupant of the selected slot; when the
\* occupant is dead exactly one new session is created, installed in that
\* slot and forwarded with, in place of an occupant that is still the dead
\* one; and no two replacements are ever created for the same dead occupant.
C3_SingleReplacement ==
    /\ \A i \in DOMAIN loops :
          (~panicked /\ loops[i].pc = "lock" /\ proxyMu = 0
              /\ DispatchOutcome(i).op = "forward")
          => /\ DispatchOutcome(i).session # 0
             /\ ~IsClosed(DispatchOutcome(i).session)
             /\ DispatchOutcome(i).session = proxySessions[DispatchOutcome(i).idx + 1]
    /\ \A i \in DOMAIN loops :
          (~panicked /\ loops[i].pc = "repair")
          => LET o == RepairOutcome(i, TRUE)
                 dead == proxySessions[o.idx + 1]
             IN /\ dead = 0 \/ IsClosed(dead)
                /\ o.op = "forward"
                /\ o.session \notin DOMAIN sessions
                /\ DOMAIN o.sessions = DOMAIN sessions \cup {o.session}
                /\ o.sessions[o.session].st = "open"
                /\ o.proxySessions[o.idx + 1] = o.session
    /\ OneReplacementEach

\* C3 in src/proxy.go: single replacement per staleness. The session a
\* loop is about to install and forward with is a live replacement created
\* for the dead occupant it found, and no interleaving creates two
\* replacements for one dead occupant of a slot.
C3_PoolSingleReplacement ==
    /\ \A i \in DOMAIN loops :
          loops[i].pc = "install" => sessions[loops[i].session].by = "repair"
    /\ \A s, t \in DOMAIN sessions :
          (/\ sessions[s].by = "repair"
           /\ sessions[t].by = "repair"
           /\ sessions[s].replaces # 0
           /\ sessions[s].replaces = sessions[t].replaces) => s = t

\* C3 witness: an accept loop is repairing the slot of a dead session while
\* another accept loop waits for the lock with a connection of its own.
C3_Witness ==
    \E i, j \in DOMAIN loops :
        /\ loops[i].pc = "repair"
        /\ IsClosed(loops[i].session)
        /\ loops[j].pc = "lock"

\* C9: a Forwarder finishes only after both copy directions have finished,
\* and when it has finished the local connection is closed and so is the
\* stream if one was opened: with both copies run to their end, with a copy
\* ended by an error, and when OpenStream failed.
C9_ForwarderTeardown ==
    \A c \in DOMAIN conns :
        conns[c].pc = "done" =>
            /\ conns[c].p1 = "closed"
            /\ conns[c].p2 # "open"
            /\ conns[c].p2 = "none" => (conns[c].g1 = "idle" /\ conns[c].g2 = "idle")
            /\ conns[c].p2 # "none" =>
                  /\ conns[c].g1 = "done" /\ conns[c].g1end # "none"
                  /\ conns[c].g2 = "done" /\ conns[c].g2end # "none"

\* C9 witness: a Forwarder has finished after carrying chunks both ways, the
\* copy from the stream ended by an error.
C9_Witness ==
    \E c \in DOMAIN conns :
        /\ conns[c].pc = "done"
        /\ conns[c].rd2 > 0
        /\ conns[c].rd1 > 0
        /\ conns[c].g1end = "readErr"

\* C10: half-close on remote end-of-input. Once the copy from the stream has
\* ended nothing more is read from the stream, and the copy from the local
\* connection ends at end-of-input only when the local client has closed its
\* sending side and all it sent was read: the end of the copy from the
\* stream does not end it.
C10_HalfClose ==
    \A c \in DOMAIN conns :
        /\ conns[c].g1 \in {"closeRead", "done"} => conns[c].rd2 = conns[c].rd2AtEnd
        /\ (conns[c].g2 \in {"close", "done"} /\ conns[c].g2end = "eof") =>
              (conns[c].lPeer = "fin" /\ conns[c].rd1 = conns[c].lSent)

\* C11: within one Forwarder the end of one copy direction does not cut the
\* other short: each copy ends only at its own natural end. The copy from
\* the stream ends at end-of-input only after the remote end's FIN with all
\* it sent read, and at a read error only when the session has failed, not
\* because the Forwarder closed the stream; the copy from the local
\* connection ends at end-of-input only after the local client's FIN.
C11_OtherDirectionDrains ==
    \A c \in DOMAIN conns :
        /\ conns[c].g1end = "eof" => (conns[c].rFin /\ conns[c].rd2 = conns[c].rSent)
        /\ conns[c].g1end = "readErr" => IsClosed(conns[c].session)
        /\ conns[c].g2end = "eof" => (conns[c].lPeer = "fin" /\ conns[c].rd1 = conns[c].lSent)

\* C12: a failed slot repair is a failure of one connection. When the loop
\* is in createSession for a dead slot and it fails: the connection is
\* closed and no Forwarder is started, no session is made, the pool is as it
\* was with the dead occupant still in the selected slot, running is true,
\* the lock the loop holds is released, and the loop is back at the top of
\* its for statement, where a later connection that selects the slot finds
\* it dead again.
C12_RepairFailure ==
    \A i \in DOMAIN loops :
        (~panicked /\ loops[i].pc = "repair") =>
            LET o == RepairOutcome(i, FALSE)
            IN /\ o.op = "drop"
               /\ o.session = 0
               /\ o.sessions = sessions
               /\ o.proxySessions = proxySessions
               /\ o.idx + 1 \in DOMAIN o.proxySessions
               /\ o.proxySessions[o.idx + 1] = loops[i].session
               /\ loops[i].session = 0 \/ IsClosed(loops[i].session)
               /\ proxyRunning
               /\ proxyMu = i
               /\ o.proxyMu = 0
               /\ o.pc = "top"

\* C12 witness: a loop that has dispatched a connection before is in
\* createSession for a slot whose session is closed.
C12_Witness ==
    \E i \in DOMAIN loops :
        /\ loops[i].pc = "repair"
        /\ loops[i].rr > 1
        /\ loops[i].session # 0
        /\ IsClosed(loops[i].session)

\* C13: a failed stream-open is a failure of one connection. A Forwarder
\* leaves its stream-open in one step and never returns to it; on a closed
\* session the stream-open fails; when it fails (no stream comes of it),
\* that step closes the local connection and finishes the Forwarder, starts
\* no copy task and leaves the running flag, the listener,
\* the pool and its sessions as they were; and a Forwarder whose stream-open
\* failed has transferred no byte and takes no further step.
C13_Step ==
    \A c \in DOMAIN conns :
        /\ conns[c].pc # "open" => conns'[c].pc # "open"
        /\ (conns[c].pc = "open" /\ conns'[c].pc # "open" /\ IsClosed(conns[c].session))
              => conns'[c].p2 = "none"
        /\ (conns[c].pc = "open" /\ conns'[c].pc # "open" /\ conns'[c].p2 = "none") =>
              /\ conns'[c] = [conns[c] EXCEPT !.pc = "done", !.p1 = "closed"]
              /\ conns'[c].p2 = "none"
              /\ conns'[c].g1 = "idle" /\ conns'[c].g2 = "idle"
              /\ conns'[c].rd1 = 0 /\ conns'[c].rd2 = 0
              /\ UNCHANGED <<ctl, listeners, sessions, chans, loops, panicked>>
        /\ (conns[c].pc = "done" /\ conns[c].p2 = "none") => conns'[c] = conns[c]

C13_StreamOpenFailure == [][C13_Step]_vars

\* C13 witness: a Forwarder has finished without a stream, on a session that
\* is open, with the proxy running.
C13_Witness ==
    \E c \in DOMAIN conns :
        /\ conns[c].pc = "done"
        /\ conns[c].p2 = "none"
        /\ conns[c].p1 = "closed"
        /\ ~IsClosed(conns[c].session)
        /\ proxyRunning

\* C14: the controller lock is not held across blocking network I/O. No
\* accept loop holds proxyMu while it is blocked in Accept or while
\* createSession is establishing the session of a slot repair: StopProxy
\* and IsRunning never wait for that I/O to take the lock.
C14_NoLockAcrossIO ==
    \A i \in DOMAIN loops :
        loops[i].pc \in {"inAccept", "repair"} => proxyMu # i

\* C15: a slow or stuck Forwarder never stalls accepting. While the proxy
\* runs, whatever the Forwarder of an earlier connection does (it may never
\* open its stream, never see end-of-input, never finish), a connection the
\* loop has accepted is dispatched, and the loop is in Accept again and
\* again for the connections that follow.
C15_AcceptNeverStalls ==
    /\ (loops[1].pc = "lock") ~> (loops[1].pc = "top")
    /\ []<>(loops[1].pc = "inAccept")

\* C15 witness: the Forwarder of the first connection has not opened its
\* stream, and the loop has dispatched a later connection and is in Accept.
C15_Witness ==
    /\ conns[1].pc = "open"
    /\ loops[1].rr > 1
    /\ loops[1].pc = "inAccept"
    /\ proxyRunning

\* C16: an accept error while the proxy is running is not fatal. A step in
\* which a loop comes out of Accept without a connection while running is
\* true takes the loop to the top of its for statement, not out of it, with
\* its round-robin counter as it was, and leaves the running flag, the
\* listener, the stop channel, the pool and every session unchanged.
C16_Step ==
    \A i \in DOMAIN loops :
        (/\ proxyRunning
         /\ ~panicked
         /\ loops[i].pc = "inAccept"
         /\ loops'[i].pc \notin {"inAccept", "lock"})
        => /\ loops'[i] = [loops[i] EXCEPT !.pc = "top", !.lst = 0]
           /\ loops'[i].rr = loops[i].rr
           /\ UNCHANGED <<ctl, listeners, sessions, chans, panicked>>

C16_AcceptErrorNotFatal == [][C16_Step]_vars

\* C16 witness: while the proxy is running a loop that has dispatched a
\* connection is in Accept on the open listener, where an error of Accept is
\* a transient one.
C16_Witness ==
    \E i \in DOMAIN loops :
        /\ proxyRunning
        /\ loops[i].pc = "inAccept"
        /\ loops[i].lst = proxyListener
        /\ listeners[loops[i].lst].open
        /\ loops[i].rr > 0

\* The stop channel and the listener of the run that spawned loop i: the
\* i-th successful StartProxy made the i-th channel, started the i-th of the
\* started listeners and spawned the i-th loop.
OwnChan(i) == i

OwnListener(i) ==
    CHOOSE l \in DOMAIN listeners :
        /\ listeners[l].started
        /\ Cardinality({m \in 1..l : listeners[m].started}) = i

OwnRunStopped(i) == chans[OwnChan(i)] = "closed"

\* C17: after the StopProxy of its run has completed, an accept loop is on
\* its way out and starts no Forwarder, whether or not a later StartProxy
\* follows. Wherever the loop is once its run was stopped: at the top of its
\* for statement it finds the stop signal and returns, after an error of
\* Accept it finds the stop signal and returns, and with a connection in
\* hand it rejects the connection and returns.
C17_StoppedLoopExits ==
    \A i \in DOMAIN loops :
        (~panicked /\ OwnRunStopped(i)) =>
            /\ loops[i].pc \in {"top", "inAccept"} => StopSignalled
            /\ (loops[i].pc = "lock" /\ proxyMu = 0) => DispatchOutcome(i).op = "reject"
            /\ loops[i].pc # "repair"

\* C18: the pool size is fixed while the proxy runs. While running is true
\* the pool has exactly the N >= 1 slots of the defaulted configuration its
\* StartProxy built it with; and a slot repair, failed or not, returns a
\* pool of the same length whose slots other than the selected one hold the
\* occupants they held, in the same order.
C18_PoolSizeFixed ==
    /\ proxyRunning =>
          /\ Len(proxySessions) >= 1
          /\ Len(proxySessions) = proxyConfig.Conn
          /\ Len(proxySessions) = listeners[proxyListener].n
    /\ \A i \in DOMAIN loops, ok \in BOOLEAN :
          (~panicked /\ loops[i].pc = "repair") =>
              LET o == RepairOutcome(i, ok)
              IN /\ Len(o.proxySessions) = Len(proxySessions)
                 /\ o.idx + 1 \in DOMAIN proxySessions
                 /\ \A j \in DOMAIN proxySessions :
                       j # o.idx + 1 => o.proxySessions[j] = proxySessions[j]
                 /\ ok => o.proxySessions[o.idx + 1] = o.session

\* C18 witness: a loop is repairing one slot of a pool of several slots in
\* which another slot holds an open session.
C18_Witness ==
    \E i \in DOMAIN loops :
        /\ loops[i].pc = "repair"
        /\ proxyRunning
        /\ Len(proxySessions) > 1
        /\ \E j \in DOMAIN proxySessions :
              /\ j # loops[i].idx + 1
              /\ proxySessions[j] # 0
              /\ ~IsClosed(proxySessions[j])

\* C19: StopProxy lets the Forwarders in flight unwind. The step of a
\* StopProxy that stops the proxy closes every session of the pool and
\* leaves every Forwarder and its local connection as they were; and once
\* the proxy is stopped the Forwarder started on a session of the pool
\* finishes, with both ends closed, under a fair scheduler, whether or not
\* the local client ever closes its sending side.
C19_StopStep ==
    (proxyRunning /\ ~proxyRunning') =>
        /\ conns' = conns
        /\ \A j \in DOMAIN proxySessions :
              proxySessions[j] # 0 => sessions'[proxySessions[j]].st = "closed"

C20_OneLoopServes ==
    \A i \in DOMAIN loops :
        /\ (loops[i].lst # 0 /\ listeners[loops[i].lst].started)
              => loops[i].lst = OwnListener(i)
        /\ (loops[i].pc = "inAccept" /\ listeners[loops[i].lst].open) => i = Len(loops)
        /\ (~panicked /\ loops[i].pc = "lock" /\ proxyMu = 0
               /\ DispatchOutcome(i).op \in {"forward", "repair"}) => i = Len(loops)

\* C21: the accept loop never calls Accept on a nil listener. Whenever a
\* loop is at its call of proxyListener.Accept(), past the stop check at the
\* top of its for statement, the listener reference it reads is not nil; and
\* no loop has panicked in that call.
C21_AcceptOnListener ==
    \A i \in DOMAIN loops :
        /\ loops[i].pc = "call" => proxyListener # 0
        /\ loops[i].pc # "panic"

\* C22: the stop signal is closed at most once per run. Whenever StopProxy
\* can be called it does not panic in close(stopChan): on a running proxy
\* the stop channel is present and open and the call closes that channel and
\* no other, and on a stopped proxy (before any StartProxy, after a failed
\* one, after a StopProxy) it closes none. A StartProxy that succeeds
\* installs a channel that did not exist before, open, with the accept loop
\* it spawns; one that fails leaves the channels and stopChan as they were.
C22_StopChanClosedOnce ==
    Callable =>
       /\ ~StopProxyOutcome.panicked
       /\ proxyRunning =>
             /\ stopChan \in DOMAIN chans
             /\ chans[stopChan] = "open"
             /\ StopProxyOutcome.chans = [chans EXCEPT ![stopChan] = "closed"]
       /\ ~proxyRunning => StopProxyOutcome.chans = chans
       /\ \A configJson \in ConfigInputs :
            \A listenOk \in ListenResults(configJson) :
              \A nOk \in SessionResults(configJson, listenOk) :
                LET o == StartProxyOutcome(configJson, listenOk, nOk)
                IN IF o.spawned
                   THEN /\ o.proxyRunning
                        /\ o.stopChan \notin DOMAIN chans
                        /\ o.chans = Append(chans, "open")
                        /\ o.chans[o.stopChan] = "open"
                   ELSE /\ o.chans = chans
                        /\ o.stopChan = stopChan
                        /\ o.proxyRunning = proxyRunning

\* C22 witness: two runs have been started and stopped, and the proxy is
\* stopped with the closed channel of the second run still in stopChan: a
\* StopProxy now is a repeated one, a StartProxy a third one.
C22_Witness ==
    /\ Callable
    /\ ~proxyRunning
    /\ Len(chans) >= 2
    /\ stopChan = Len(chans)
    /\ \A c \in DOMAIN chans : chans[c] = "closed"

\* C23 in src/proxy.go: the slot reads and writes of the accept loop are
\* synchronized with StopProxy. A loop that computes its slot index and reads
\* the slot finds a pool with slots (no modulo by a zero length); a loop
\* that installs a replacement finds its slot in the pool (no index out of
\* range); and once the proxy is stopped no replacement session is open.
C23_PoolSynchronized ==
    /\ \A i \in DOMAIN loops :
          /\ loops[i].pc = "pick" => Len(proxySessions) > 0
          /\ loops[i].pc = "install" => loops[i].idx + 1 \in DOMAIN proxySessions
    /\ ~proxyRunning =>
          \A s \in DOMAIN sessions : sessions[s].by = "repair" => IsClosed(s)
====
